---- MODULE Spec2Model ----
(***************************************************************************)
(* Model of the UCI options registry of SugaR (ucioption.cpp): the Option  *)
(* class, the case-insensitive OptionsMap, the shared insertion counter,   *)
(* the textual update operator=(const string&) and the printer.            *)
(*                                                                         *)
(* Text is a sequence of one-character strings, so that length, character  *)
(* access and tolower() are computed as the C++ code computes them.        *)
(***************************************************************************)
EXTENDS Integers, Sequences, FiniteSets, TLC

\* ------------------------------------------------------------------ bounds
\* Declare and Write operations performed in one run.
MaxOps == 3

\* Length of the texts the comparator is applied to on its own.
MaxLen == 2

\* --------------------------------------------------------------- characters
\* The printable ASCII characters in code order, starting at code 32 (the
\* double quote, the backslash and the backtick are spelled out: they occur in no text here).
Printable ==
  << " ", "!", "DQUOTE", "#", "$", "%", "&", "'", "(", ")", "*", "+", ",", "-", ".", "/",
     "0", "1", "2", "3", "4", "5", "6", "7", "8", "9", ":", ";", "<", "=", ">", "?",
     "@", "A", "B", "C", "D", "E", "F", "G", "H", "I", "J", "K", "L", "M", "N", "O",
     "P", "Q", "R", "S", "T", "U", "V", "W", "X", "Y", "Z", "[", "BACKSLASH", "]", "^", "_",
     "BACKTICK", "a", "b", "c", "d", "e", "f", "g", "h", "i", "j", "k", "l", "m", "n", "o",
     "p", "q", "r", "s", "t", "u", "v", "w", "x", "y", "z", "{", "|", "}", "~" >>

\* The code of each character.
OrdTable ==
  [c \in { Printable[i] : i \in 1..Len(Printable) } |->
     31 + (CHOOSE i \in 1..Len(Printable) : Printable[i] = c)]

Ord(c) == OrdTable[c]

\* tolower() of <cctype> in the "C" locale, on character codes.
ToLower(n) == IF n >= 65 /\ n <= 90 THEN n + 32 ELSE n

IsDigit(c) == Ord(c) >= 48 /\ Ord(c) <= 57

IsSpace(c) == c = " "

DigitChars == << "0", "1", "2", "3", "4", "5", "6", "7", "8", "9" >>

\* ------------------------------------------------- CaseInsensitiveLess
RECURSIVE LexLess(_, _, _)
\* std::lexicographical_compare from position i on, with the lambda
\* tolower(c1) < tolower(c2) as the element comparison.
LexLess(s1, s2, i) ==
  IF i > Len(s2) THEN FALSE
  ELSE IF i > Len(s1) THEN TRUE
  ELSE IF ToLower(Ord(s1[i])) < ToLower(Ord(s2[i])) THEN TRUE
  ELSE IF ToLower(Ord(s2[i])) < ToLower(Ord(s1[i])) THEN FALSE
  ELSE LexLess(s1, s2, i + 1)

\* std::lexicographical_compare on the characters as they are.
RECURSIVE ExactLess(_, _, _)
ExactLess(s1, s2, i) ==
  IF i > Len(s2) THEN FALSE
  ELSE IF i > Len(s1) THEN TRUE
  ELSE IF Ord(s1[i]) < Ord(s2[i]) THEN TRUE
  ELSE IF Ord(s2[i]) < Ord(s1[i]) THEN FALSE
  ELSE ExactLess(s1, s2, i + 1)

\* The comparator without tolower().
CaseSensitiveLess(s1, s2) == ExactLess(s1, s2, 1)

\* toupper() of <cctype> in the "C" locale, on character codes.
ToUpper(n) == IF n >= 97 /\ n <= 122 THEN n - 32 ELSE n

\* std::lexicographical_compare with toupper(c1) < toupper(c2).
RECURSIVE UpperLess(_, _, _)
UpperLess(s1, s2, i) ==
  IF i > Len(s2) THEN FALSE
  ELSE IF i > Len(s1) THEN TRUE
  ELSE IF ToUpper(Ord(s1[i])) < ToUpper(Ord(s2[i])) THEN TRUE
  ELSE IF ToUpper(Ord(s2[i])) < ToUpper(Ord(s1[i])) THEN FALSE
  ELSE UpperLess(s1, s2, i + 1)

\* The comparator folding to upper case instead of lower case.
UpperCaseLess(s1, s2) == UpperLess(s1, s2, 1)

CaseInsensitiveLess(s1, s2) == LexLess(s1, s2, 1)

\* Equivalence under the map's comparator: neither is less than the other.
Equiv(s1, s2) == ~CaseInsensitiveLess(s1, s2) /\ ~CaseInsensitiveLess(s2, s1)

\* --------------------------------------------------------------- std::stof
\* The result of std::stof(v) is a record: kind "throw" with what =
\* "invalid_argument" (no conversion could be performed) or "out_of_range"
\* (strtof of glibc, which stof calls, reported ERANGE: overflow, or an
\* inexact result below the smallest normal float); kind "nan"; kind "inf";
\* or kind "num", the decimal number rounded to the nearest float, ties to
\* even, (-1)^neg * sig * 2^exp with sig < 2^24, normalised: 2^23 <= sig unless
\* the float is zero (sig 0, exp 0) or subnormal (exp -149).  Texts with an
\* exponent or a hexadecimal prefix are outside the inputs of this model.
RECURSIVE SkipSpaces(_, _)
SkipSpaces(v, i) ==
  IF i <= Len(v) /\ IsSpace(v[i]) THEN SkipSpaces(v, i + 1) ELSE i

\* Index of the first position >= i of v that holds no decimal digit.
RECURSIVE DigitsEnd(_, _)
DigitsEnd(v, i) ==
  IF i <= Len(v) /\ IsDigit(v[i]) THEN DigitsEnd(v, i + 1) ELSE i

\* The decimal digits v[i..j-1] as numbers, most significant first.
DigitSeq(v, i, j) == SubSeq([k \in 1..(j - i) |-> Ord(v[i + k - 1]) - 48], 1, j - i)

AllZero(ds) == \A k \in 1..Len(ds) : ds[k] = 0

RECURSIVE StripZeros(_)
StripZeros(ds) == IF ds # << >> /\ ds[1] = 0 THEN StripZeros(Tail(ds)) ELSE ds

\* Value of at most nine digits.
RECURSIVE DigitsValue(_, _)
DigitsValue(ds, acc) ==
  IF ds = << >> THEN acc ELSE DigitsValue(Tail(ds), acc * 10 + Head(ds))

\* v[i..i+2] spells w (three lowercase letters), in any letter case.
Spells(v, i, w) ==
  /\ i + 2 <= Len(v)
  /\ \A k \in 0..2 : ToLower(Ord(v[i + k])) = Ord(w[k + 1])

TwoTo23 == 8388608

TwoTo24 == 16777216

\* Exponent of the smallest subnormal float, 2^-149, and of the largest
\* float, (2^24 - 1) * 2^104.
MinExp == -149

MaxExp == 104

FloatThrow(w) == [kind |-> "throw", what |-> w, sig |-> 0, exp |-> 0]

FloatNum(sg, e) == [kind |-> "num", what |-> "", sig |-> sg, exp |-> e]

\* The float for the significand i (at most 2^24) and exponent e once i has
\* been rounded: 2^24 renormalises, and past the largest float strtof
\* overflows.
Normal(i, e) ==
  IF i = TwoTo24
  THEN (IF e + 1 > MaxExp THEN FloatThrow("out_of_range") ELSE FloatNum(TwoTo23, e + 1))
  ELSE (IF e > MaxExp THEN FloatThrow("out_of_range") ELSE FloatNum(i, e))

\* Round to nearest, ties to even: i * 2^e plus a remainder of g half units
\* and, when s, something more below the half unit.
Rounded(i, e, g, s) ==
  Normal(IF g = 1 /\ (s \/ i % 2 = 1) THEN i + 1 ELSE i, e)

\* The same for i * 2^e below the smallest normal float (2^23 <= i and
\* e < -149), as round_and_return of glibc's strtof does it: the significand
\* is shifted right by shift = -149 - e bits and rounded on the bits shifted
\* out and the remainder, except that a shift of one bit does not look at
\* the remainder bit g; ERANGE is reported when bits were lost, unless the
\* number, rounded as a normal float would be, reaches the smallest normal
\* float; and for a shift of more than 24 bits.
ShiftedOut(i, shift, g, s, half, low) ==
  IF (half = 1 \/ low) /\ ~(shift = 1 /\ i = TwoTo24 - 1 /\ g = 1)
  THEN FloatThrow("out_of_range")
  ELSE Rounded(i \div 2^shift, MinExp, half, low)

RoundedSubnormal(i, shift, g, s) ==
  IF shift > 24 THEN FloatThrow("out_of_range")
  ELSE ShiftedOut(i, shift, g, s, (i \div 2^(shift - 1)) % 2,
                  s \/ (shift > 1 /\ g = 1) \/ i % 2^(shift - 1) # 0)

\* The float for i * 2^e with 2^23 <= i < 2^24, remainder g and s as above.
Finished(i, e, g, s) ==
  IF e >= MinExp THEN Rounded(i, e, g, s) ELSE RoundedSubnormal(i, MinExp - e, g, s)

\* Halve the number with digits ds: quotient digits and remainder.  The
\* remainder carried into a digit is the parity of the digit before it.
HalveDigits(ds) ==
  [q |-> SubSeq([k \in 1..Len(ds) |->
                   ((IF k > 1 THEN 10 * (ds[k - 1] % 2) ELSE 0) + ds[k]) \div 2],
                1, Len(ds)),
   r |-> ds[Len(ds)] % 2]

\* Double the fraction 0.fs: fraction digits and the carry into the units.
\* A digit carries into the one before it exactly when it is 5 or more.
DoubleDigits(fs) ==
  [f |-> SubSeq([k \in 1..Len(fs) |->
                   (2 * fs[k] + (IF k < Len(fs) /\ fs[k + 1] >= 5 THEN 1 ELSE 0)) % 10],
                1, Len(fs)),
   c |-> IF fs # << >> /\ fs[1] >= 5 THEN 1 ELSE 0]

\* i * 2^e with i >= 2^24: halve until the significand has 24 bits, g the
\* bit shifted out last and s whether anything lower was non-zero.
RECURSIVE ShrinkInt(_, _, _, _)
ShrinkInt(i, e, g, s) ==
  IF i < TwoTo24 THEN Rounded(i, e, g, s)
  ELSE ShrinkInt(i \div 2, e + 1, i % 2, s \/ g = 1)

\* One halving of the integer with digits r.ds, r.g and r.s as above.
HalvedTo(h, g, s) == [ds |-> h.q, g |-> h.r, s |-> s \/ g = 1]

Halved(r) == HalvedTo(HalveDigits(r.ds), r.g, r.s)

Halved8(r) == Halved(Halved(Halved(Halved(Halved(Halved(Halved(Halved(r))))))))

\* The same as ShrinkInt for an integer of more than nine digits, held as
\* its digits: eight halvings at a time while more than twelve digits remain.
RECURSIVE ShrinkDigits(_, _, _, _)
ShrinkTo(r, e) == ShrinkDigits(StripZeros(r.ds), e, r.g, r.s)

ShrinkDigits(ds, e, g, s) ==
  IF Len(ds) <= 9 THEN ShrinkInt(DigitsValue(ds, 0), e, g, s)
  ELSE IF Len(ds) > 12 THEN ShrinkTo(Halved8([ds |-> ds, g |-> g, s |-> s]), e + 8)
  ELSE ShrinkTo(Halved([ds |-> ds, g |-> g, s |-> s]), e + 1)

\* 0.fs >= 1/2, and 0.fs is neither 0 nor 1/2.
HalfOrMore(fs) == fs # << >> /\ fs[1] >= 5

NotZeroNorHalf(fs) ==
  \E k \in 1..Len(fs) : IF k = 1 THEN fs[1] \notin {0, 5} ELSE fs[k] # 0

\* One doubling of r.i + 0.(r.f).
DoubledTo(i, d) == [i |-> 2 * i + d.c, f |-> d.f]

Doubled(r) == DoubledTo(r.i, DoubleDigits(r.f))

Doubled8(r) == Doubled(Doubled(Doubled(Doubled(Doubled(Doubled(Doubled(Doubled(r))))))))

\* (i + 0.fs) * 2^e with i < 2^24, not zero: double until the significand
\* has 24 bits (eight doublings at a time while it has fewer than 16), then
\* round on the fraction left.  A number whose exponent has fallen more than
\* 24 below that of the subnormals is an ERANGE of strtof.
RECURSIVE Grow(_, _, _)
GrowTo(r, e) == Grow(r.i, r.f, e)

Grow(i, fs, e) ==
  IF i >= TwoTo23
     THEN Finished(i, e, IF HalfOrMore(fs) THEN 1 ELSE 0, NotZeroNorHalf(fs))
  ELSE IF e < MinExp - 24 THEN FloatThrow("out_of_range")
  ELSE IF i < 32768 THEN GrowTo(Doubled8([i |-> i, f |-> fs]), e - 8)
  ELSE GrowTo(Doubled([i |-> i, f |-> fs]), e - 1)

\* The non-negative integer n < 2^31 rounded to float.
RoundInt(n) ==
  IF n = 0 THEN FloatNum(0, 0)
  ELSE IF n >= TwoTo24 THEN ShrinkInt(n, 0, 0, FALSE)
  ELSE Grow(n, << >>, 0)

\* The smallest decimal exponent strtof goes on to convert, FLT_MIN_10_EXP
\* - (FLT_DIG + 2): a number below 10^-46 is an ERANGE straight away.
MinDecimalExp == -45

\* The decimal number ds.fs (ds without leading zeros) rounded to the
\* nearest float, as strtof rounds it.
RoundDigits(ds, fs) ==
  IF Len(ds) > 9 THEN ShrinkDigits(ds, 0, 0, ~AllZero(fs))
  ELSE IF AllZero(fs) THEN RoundInt(DigitsValue(ds, 0))
  ELSE IF ds = << >> /\ Len(fs) - Len(StripZeros(fs)) > 0 - MinDecimalExp
       THEN FloatThrow("out_of_range")
  ELSE IF DigitsValue(ds, 0) >= TwoTo24 THEN ShrinkInt(DigitsValue(ds, 0), 0, 0, TRUE)
  ELSE Grow(DigitsValue(ds, 0), fs, 0)

RoundF(ds, fs) == RoundDigits(StripZeros(ds), fs)

Signed(x, neg) ==
  [kind |-> x.kind, what |-> x.what, neg |-> neg /\ x.kind # "throw",
   sig |-> x.sig, exp |-> x.exp]

Stof(v) ==
  LET p0   == SkipSpaces(v, 1)
      neg  == p0 <= Len(v) /\ v[p0] = "-"
      p1   == IF p0 <= Len(v) /\ (v[p0] = "-" \/ v[p0] = "+") THEN p0 + 1 ELSE p0
      e1   == DigitsEnd(v, p1)
      dot  == e1 <= Len(v) /\ v[e1] = "."
      f1   == IF dot THEN e1 + 1 ELSE e1
      e2   == IF dot THEN DigitsEnd(v, f1) ELSE e1
      some == e1 > p1 \/ e2 > f1
  IN IF Spells(v, p1, <<"n", "a", "n">>)
        THEN Signed([kind |-> "nan", what |-> "", sig |-> 0, exp |-> 0], neg)
     ELSE IF Spells(v, p1, <<"i", "n", "f">>)
        THEN Signed([kind |-> "inf", what |-> "", sig |-> 0, exp |-> 0], neg)
     ELSE IF ~some
        THEN Signed(FloatThrow("invalid_argument"), FALSE)
     ELSE Signed(RoundF(DigitSeq(v, p1, e1), DigitSeq(v, f1, e2)), neg)

\* The int n converted to float, as the comparison float < int converts it.
FloatOfInt(n) == IF n < 0 THEN Signed(RoundInt(0 - n), TRUE) ELSE Signed(RoundInt(n), FALSE)

\* |a| < |b| for two floats that are numbers.
MagLess(a, b) ==
  IF a.sig = 0 THEN b.sig > 0
  ELSE b.sig # 0 /\ (a.exp < b.exp \/ (a.exp = b.exp /\ a.sig < b.sig))

\* a < b for two floats that are numbers (-0 equals 0).
NumLess(a, b) ==
  IF a.sig = 0 /\ b.sig = 0 THEN FALSE
  ELSE IF a.neg # b.neg THEN a.neg
  ELSE IF a.neg THEN MagLess(b, a) ELSE MagLess(a, b)

FloatCompare(x, y, xLess) ==
  CASE x.kind = "nan" -> FALSE
    [] x.kind = "inf" -> (x.neg = xLess)
    [] OTHER -> IF xLess THEN NumLess(x, y) ELSE NumLess(y, x)

\* x < n for a float x (a Stof result that is not "throw") and an int n.
FloatLess(x, n) == FloatCompare(x, FloatOfInt(n), TRUE)

\* x > n for a float x (a Stof result that is not "throw") and an int n.
FloatGreater(x, n) == FloatCompare(x, FloatOfInt(n), FALSE)

\* ----------------------------------------------------------- std::to_string
RECURSIVE NatDigits(_)
NatDigits(n) ==
  IF n < 10 THEN << DigitChars[n + 1] >>
  ELSE NatDigits(n \div 10) \o << DigitChars[(n % 10) + 1] >>

\* std::to_string(double) of an integral value: "%f", six decimals.
to_string(v) ==
  (IF v < 0 THEN << "-" >> \o NatDigits(0 - v) ELSE NatDigits(v))
     \o << ".", "0", "0", "0", "0", "0", "0" >>

\* ------------------------------------------------------ istringstream >> token
\* Index of the first position >= i of s that holds whitespace (or Len(s)+1).
RECURSIVE TokenEnd(_, _)
TokenEnd(s, i) ==
  IF i <= Len(s) /\ ~IsSpace(s[i]) THEN TokenEnd(s, i + 1) ELSE i

\* The whitespace-separated tokens of s from position i on, in order.
RECURSIVE Tokens(_, _)
TokenFrom(s, b, e) ==
  IF b > Len(s) THEN << >> ELSE << SubSeq(s, b, e - 1) >> \o Tokens(s, e)

Tokens(s, i) == TokenFrom(s, SkipSpaces(s, i), TokenEnd(s, SkipSpaces(s, i)))

\* ------------------------------------------------------------------- texts
MaxHashMB == 33554432

T_true == << "t", "r", "u", "e" >>

T_false == << "f", "a", "l", "s", "e" >>

T_True == << "T", "r", "u", "e" >>

T_var == << "v", "a", "r" >>

T_VAR == << "V", "A", "R" >>

T_Both == << "B", "o", "t", "h" >>

T_Off == << "O", "f", "f" >>

T_black == << "b", "l", "a", "c", "k" >>

T_Purple == << "P", "u", "r", "p", "l", "e" >>

T_maybe == << "m", "a", "y", "b", "e" >>

T_nan == << "n", "a", "n" >>

T_0 == << "0" >>

T_64 == << "6", "4" >>

T_minus101 == << "-", "1", "0", "1" >>

T_33554433 == << "3", "3", "5", "5", "4", "4", "3", "3" >>

\* A text whose number lies below 1 and whose nearest float is 1.
T_0_99999999 == << "0", ".", "9", "9", "9", "9", "9", "9", "9", "9" >>

\* "0." followed by fifty zeros and a one: 1e-51, below every float but 0.
T_1eMinus51 == << "0", "." >> \o [k \in 1..50 |-> "0"] \o << "1" >>

\* "Both var Off var White var Black var Both"
ComboList ==
  << "B", "o", "t", "h", " ", "v", "a", "r", " ", "O", "f", "f", " ", "v", "a", "r", " ",
     "W", "h", "i", "t", "e", " ", "v", "a", "r", " ", "B", "l", "a", "c", "k", " ",
     "v", "a", "r", " ", "B", "o", "t", "h" >>

N_Hash == << "H", "a", "s", "h" >>

N_Threads == << "T", "h", "r", "e", "a", "d", "s" >>

N_threads == << "t", "h", "r", "e", "a", "d", "s" >>

N_THREADS == << "T", "H", "R", "E", "A", "D", "S" >>

N_ThReAdS == << "T", "h", "R", "e", "A", "d", "S" >>

N_Ponder == << "P", "o", "n", "d", "e", "r" >>

N_ClearHash == << "C", "l", "e", "a", "r", " ", "H", "a", "s", "h" >>

N_DebugLogFile ==
  << "D", "e", "b", "u", "g", " ", "L", "o", "g", " ", "F", "i", "l", "e" >>

N_AnalysisContempt ==
  << "A", "n", "a", "l", "y", "s", "i", "s", " ", "C", "o", "n", "t", "e", "m", "p", "t" >>

N_analysiscontempt ==
  << "a", "n", "a", "l", "y", "s", "i", "s", " ", "c", "o", "n", "t", "e", "m", "p", "t" >>

\* The text values offered to a Write.
Texts ==
  { << >>, T_0, T_64, T_minus101, T_33554433, T_0_99999999, T_1eMinus51, T_nan,
    T_maybe, T_true, T_false, T_True, T_black, T_Purple, T_var, T_VAR }

\* The names offered to a lookup.
LookupNames == { N_Threads, N_threads, N_THREADS, N_ThReAdS, N_Hash }

\* ----------------------------------------------------------------- Option
\* The idx of an Option that operator<< has not assigned yet.
NoIdx == -1

OptionString(v, f) ==
  [type |-> "string", defaultValue |-> v, currentValue |-> v,
   min |-> 0, max |-> 0, idx |-> NoIdx, on_change |-> f]

OptionCheck(v, f) ==
  [type |-> "check", defaultValue |-> IF v THEN T_true ELSE T_false,
   currentValue |-> IF v THEN T_true ELSE T_false,
   min |-> 0, max |-> 0, idx |-> NoIdx, on_change |-> f]

OptionButton(f) ==
  [type |-> "button", defaultValue |-> << >>, currentValue |-> << >>,
   min |-> 0, max |-> 0, idx |-> NoIdx, on_change |-> f]

OptionSpin(v, minv, maxv, f) ==
  [type |-> "spin", defaultValue |-> to_string(v), currentValue |-> to_string(v),
   min |-> minv, max |-> maxv, idx |-> NoIdx, on_change |-> f]

\* OptionCombo that starts the current value at the default value, as the
\* other constructors do.
OptionComboCurrentIsDefault(v, cur, f) ==
  [type |-> "combo", defaultValue |-> v, currentValue |-> v,
   min |-> 0, max |-> 0, idx |-> NoIdx, on_change |-> f]

OptionCombo(v, cur, f) ==
  [type |-> "combo", defaultValue |-> v, currentValue |-> cur,
   min |-> 0, max |-> 0, idx |-> NoIdx, on_change |-> f]

\* Option::operator double(): the current value of a spin read as a number,
\* and for a check 1 when the current value is "true", 0 otherwise.
OperatorDouble(o) ==
  IF o.type = "spin" THEN Stof(o.currentValue)
  ELSE FloatOfInt(IF o.currentValue = T_true THEN 1 ELSE 0)

\* Option::operator==(const char*): case-insensitive equality with s.
OperatorEquals(o, s) ==
  ~CaseInsensitiveLess(o.currentValue, s) /\ ~CaseInsensitiveLess(s, o.currentValue)

\* The declarations offered to Declare: lines of init(), and two that declare
\* an existing name again in another letter case.
DeclInputs ==
  { [name |-> N_DebugLogFile, opt |-> OptionString(<< >>, "on_logger")],
    [name |-> N_AnalysisContempt, opt |-> OptionCombo(ComboList, T_Both, "nullptr")],
    [name |-> N_Threads, opt |-> OptionSpin(1, 1, 512, "on_threads")],
    [name |-> N_Hash, opt |-> OptionSpin(16, 1, MaxHashMB, "on_hash_size")],
    [name |-> N_ClearHash, opt |-> OptionButton("on_clear_hash")],
    [name |-> N_Ponder, opt |-> OptionCheck(FALSE, "nullptr")],
    [name |-> N_threads, opt |-> OptionSpin(1, 1, 512, "on_threads")],
    [name |-> N_analysiscontempt, opt |-> OptionCombo(ComboList, T_Off, "on_logger")] }

\* -------------------------------------------------------------- OptionsMap
\* std::map<string, Option, CaseInsensitiveLess>: a sequence of [key, opt]
\* kept in the order of the comparator, at most one entry per equivalent key.

\* Position of the entry whose key is equivalent to k, or 0 (map::find).
RECURSIVE MapFindFrom(_, _, _)
MapFindFrom(m, k, i) ==
  IF i > Len(m) THEN 0
  ELSE IF Equiv(m[i].key, k) THEN i
  ELSE MapFindFrom(m, k, i + 1)

MapFind(m, k) == MapFindFrom(m, k, 1)

\* map::count(k).
MapCount(m, k) == IF MapFind(m, k) = 0 THEN 0 ELSE 1

\* map::operator[](k): the map, with a default-constructed Option inserted
\* under k at its sorted position when no equivalent key is present.
MapSubscript(m, k) ==
  IF MapFind(m, k) # 0 THEN m
  ELSE LET n == Cardinality({ i \in 1..Len(m) : CaseInsensitiveLess(m[i].key, k) })
       IN SubSeq(m, 1, n) \o << [key |-> k, opt |-> OptionButton("nullptr")] >>
            \o SubSeq(m, n + 1, Len(m))

\* AssignAt that takes the rank from the size of the map instead of from the
\* counter.
AssignAtRankFromSize(m1, i, ctr, opt) ==
  [om |-> [m1 EXCEPT ![i].opt = [opt EXCEPT !.idx = Len(m1) - 1]],
   insert_order |-> ctr + 1]

\* o[name] << opt, with the static counter insert_order at ctr: the entry at
\* name becomes a copy of opt with idx = insert_order++.
AssignAt(m1, i, ctr, opt) ==
  [om |-> [m1 EXCEPT ![i].opt = [opt EXCEPT !.idx = ctr]],
   insert_order |-> ctr + 1]

InsertInto(m1, ctr, name, opt) == AssignAt(m1, MapFind(m1, name), ctr, opt)

OperatorInsert(m, ctr, name, opt) == InsertInto(MapSubscript(m, name), ctr, name, opt)

\* The local comboMap of operator=: comboMap[token] << Option() for every
\* token, each of which advances the static counter.
RECURSIVE ComboMap(_, _)
ComboMap(toks, r) ==
  IF toks = << >> THEN r
  ELSE ComboMap(Tail(toks),
                OperatorInsert(r.om, r.insert_order, Head(toks), OptionButton("nullptr")))

\* "stof(v) < min || stof(v) > max" for x = stof(v): the exception stof
\* throws, or "reject" when the condition holds, or "pass".
SpinCheck(x, lo, hi) ==
  IF x.kind = "throw" THEN x.what
  ELSE IF FloatLess(x, lo) \/ FloatGreater(x, hi) THEN "reject" ELSE "pass"

\* FirstCheck that refuses the empty text for a button as well.
FirstCheckEmptyForAll(o, v) ==
  IF v = << >> THEN "reject"
  ELSE IF o.type = "check" /\ v # T_true /\ v # T_false THEN "reject"
  ELSE IF o.type = "spin"
       THEN SpinCheck(Stof(v), o.min, o.max)
  ELSE "pass"

\* FirstCheck with the lower bound of a spin left unchecked.
FirstCheckNoLowerBound(o, v) ==
  IF o.type # "button" /\ v = << >> THEN "reject"
  ELSE IF o.type = "check" /\ v # T_true /\ v # T_false THEN "reject"
  ELSE IF o.type = "spin"
       THEN IF Stof(v).kind = "throw" THEN Stof(v).what
            ELSE IF FloatGreater(Stof(v), o.max) THEN "reject" ELSE "pass"
  ELSE "pass"

\* FirstCheck that compares the text of a check with "true" and "false"
\* through the comparator of the map, letter case ignored.
FirstCheckFoldedBoolean(o, v) ==
  IF o.type # "button" /\ v = << >> THEN "reject"
  ELSE IF o.type = "check" /\ ~Equiv(v, T_true) /\ ~Equiv(v, T_false) THEN "reject"
  ELSE IF o.type = "spin"
       THEN SpinCheck(Stof(v), o.min, o.max)
  ELSE "pass"

\* The first if of operator=, its three disjuncts evaluated left to right:
\* "reject" (return *this), "pass", or the exception that stof throws.
FirstCheck(o, v) ==
  IF o.type # "button" /\ v = << >> THEN "reject"
  ELSE IF o.type = "check" /\ v # T_true /\ v # T_false THEN "reject"
  ELSE IF o.type = "spin"
       THEN SpinCheck(Stof(v), o.min, o.max)
  ELSE "pass"

\* ComboCheck that only refuses the separator and accepts any other token.
ComboCheckOnlyVar(o, v, cm) == v = T_var

\* The combo block of operator=: TRUE when it returns without storing.
ComboCheck(o, v, cm) == MapCount(cm, v) = 0 \/ v = T_var

\* The hook calls of operator= on the option o1 it has stored into: the hook
\* and the current value it observes.
OnChange(o1) ==
  IF o1.on_change # "nullptr"
  THEN << [hook |-> o1.on_change, seen |-> o1.currentValue] >>
  ELSE << >>

\* The token of the choice list of o that v matches, or v when none does.
RECURSIVE ListedToken(_, _)
ListedToken(toks, v) ==
  IF toks = << >> THEN v
  ELSE IF Equiv(Head(toks), v) THEN Head(toks)
  ELSE ListedToken(Tail(toks), v)

\* Store that keeps the spelling of the choice list for a combo.
StoreListedSpelling(o, v) ==
  IF o.type = "combo"
  THEN [o EXCEPT !.currentValue = ListedToken(Tokens(o.defaultValue, 1), v)]
  ELSE IF o.type # "button" THEN [o EXCEPT !.currentValue = v] ELSE o

\* Store that assigns the default value along with the current value.
StoreBothValues(o, v) ==
  IF o.type # "button" THEN [o EXCEPT !.currentValue = v, !.defaultValue = v] ELSE o

\* The option after "if (type != button) currentValue = v".
Store(o, v) == IF o.type # "button" THEN [o EXCEPT !.currentValue = v] ELSE o

\* AssignTail that calls the hook before it stores the value.
AssignTailHookFirst(o, v, cm) ==
  IF o.type = "combo" /\ ComboCheck(o, v, cm.om)
  THEN [opt |-> o, insert_order |-> cm.insert_order, threw |-> FALSE,
        what |-> "", hooks |-> << >>]
  ELSE [opt |-> Store(o, v), insert_order |-> cm.insert_order, threw |-> FALSE,
        what |-> "", hooks |-> OnChange(o)]

\* operator= from the combo block on, cm being the comboMap built (empty for
\* the other types) and the counter after building it.
AssignTail(o, v, cm) ==
  IF o.type = "combo" /\ ComboCheck(o, v, cm.om)
  THEN [opt |-> o, insert_order |-> cm.insert_order, threw |-> FALSE,
        what |-> "", hooks |-> << >>]
  ELSE [opt |-> Store(o, v), insert_order |-> cm.insert_order, threw |-> FALSE,
        what |-> "", hooks |-> OnChange(Store(o, v))]

AssignChecked(o, v, ctr, c1) ==
  IF c1 \notin {"reject", "pass"}
     THEN [opt |-> o, insert_order |-> ctr, threw |-> TRUE, what |-> c1, hooks |-> << >>]
  ELSE IF c1 = "reject"
     THEN [opt |-> o, insert_order |-> ctr, threw |-> FALSE,
        what |-> "", hooks |-> << >>]
  ELSE AssignTail(o, v,
         IF o.type = "combo"
         THEN ComboMap(Tokens(o.defaultValue, 1), [om |-> << >>, insert_order |-> ctr])
         ELSE [om |-> << >>, insert_order |-> ctr])

\* Option& Option::operator=(const string& v) on option o with the static
\* counter at ctr: the option afterwards, the counter afterwards, whether an
\* exception left the operator and which, and the hook calls made.
OperatorAssign(o, v, ctr) == AssignChecked(o, v, ctr, FirstCheck(o, v))

\* operator<<(ostream&, const OptionsMap&): for idx = 0 .. size-1, the first
\* entry in map order whose idx field equals idx.  The entries printed, in
\* the order printed.
RECURSIVE PrintedFrom(_, _)
PrintedFrom(m, idx) ==
  IF idx >= Len(m) THEN << >>
  ELSE LET hit == { i \in 1..Len(m) : m[i].opt.idx = idx }
       IN (IF hit = {} THEN << >>
           ELSE << m[CHOOSE i \in hit : \A j \in hit : i <= j] >>)
          \o PrintedFrom(m, idx + 1)

\* Enumerate that walks the map in its own (name) order.
EnumerateInMapOrder(m) == m

Enumerate(m) == PrintedFrom(m, 0)

\* The characters of a type token, as operator<< writes o.type.
TypeChars(t) ==
  CASE t = "string" -> << "s", "t", "r", "i", "n", "g" >>
    [] t = "check"  -> << "c", "h", "e", "c", "k" >>
    [] t = "spin"   -> << "s", "p", "i", "n" >>
    [] t = "combo"  -> << "c", "o", "m", "b", "o" >>
    [] t = "button" -> << "b", "u", "t", "t", "o", "n" >>

\* os << n for an int n.
IntChars(n) == IF n < 0 THEN << "-" >> \o NatDigits(0 - n) ELSE NatDigits(n)

\* |x| without its fraction, for a float x below 2^31 in magnitude.
Truncated(x) ==
  IF x.exp >= 0 THEN x.sig * 2^(x.exp)
  ELSE IF x.exp < -24 THEN 0
  ELSE x.sig \div 2^(0 - x.exp)

\* int(x) for a float x: truncation toward zero.  The conversion is
\* undefined for a NaN, an infinity and a number that no int holds; no
\* default value of a spin is one of these.
IntOfFloat(x) ==
  CASE x.kind = "num" /\ x.exp <= 7 -> IF x.neg THEN 0 - Truncated(x) ELSE Truncated(x)

\* RenderLine that prints the current value where the default value goes.
RenderLineCurrentValue(e) ==
  << [label |-> "option name", text |-> e.key],
     [label |-> "type", text |-> TypeChars(e.opt.type)] >>
  \o (IF e.opt.type \in {"string", "check", "combo"}
      THEN << [label |-> "default", text |-> e.opt.currentValue] >>
      ELSE << >>)
  \o (IF e.opt.type = "spin"
      THEN << [label |-> "default", text |-> IntChars(IntOfFloat(Stof(e.opt.currentValue)))],
              [label |-> "min", text |-> IntChars(e.opt.min)],
              [label |-> "max", text |-> IntChars(e.opt.max)] >>
      ELSE << >>)

\* The text operator<< writes for one entry e, as its fields in the order
\* written: each field is the label written before it and the text written.
RenderLine(e) ==
  << [label |-> "option name", text |-> e.key],
     [label |-> "type", text |-> TypeChars(e.opt.type)] >>
  \o (IF e.opt.type \in {"string", "check", "combo"}
      THEN << [label |-> "default", text |-> e.opt.defaultValue] >>
      ELSE << >>)
  \o (IF e.opt.type = "spin"
      THEN << [label |-> "default", text |-> IntChars(IntOfFloat(Stof(e.opt.defaultValue)))],
              [label |-> "min", text |-> IntChars(e.opt.min)],
              [label |-> "max", text |-> IntChars(e.opt.max)] >>
      ELSE << >>)

RenderEntries(es) == [k \in 1..Len(es) |-> RenderLine(es[k])]

\* The text operator<< writes for the map m, one line per entry printed.
Render(m) == RenderEntries(Enumerate(m))

\* ------------------------------------------------------------------- state
VARIABLES
  om,            \* the OptionsMap
  insert_order,  \* the static counter of Option::operator<<
  lastOp,        \* the operation performed last: its input, what it found, its outcome
  hookCalls,     \* number of on_change calls made so far
  accepted,      \* number of writes so far that passed validation on a hooked option
  declared,      \* the names declared, one per case-insensitive name, each as
                 \* first spelled, in the order of their latest declaration
  nDeclares,
  nWrites,
  cmpIn,         \* two texts handed to the comparator on its own
  cmpOut         \* what the comparator and its users answered for them

vars ==
  << om, insert_order, lastOp, hookCalls, accepted, declared, nDeclares, nWrites,
     cmpIn, cmpOut >>

cmpVars == << cmpIn, cmpOut >>

NoCmp == [done |-> FALSE, less |-> FALSE, greater |-> FALSE, equals |-> FALSE, count |-> 0]

NoOp ==
  [op |-> "none", name |-> << >>, v |-> << >>, cur |-> << >>, pos |-> 0,
   threw |-> FALSE, what |-> "", hooks |-> << >>, ctrBefore |-> 0]

\* The registry before init() has declared anything.
EmptyRegistry ==
  /\ om = << >>
  /\ insert_order = 0
  /\ lastOp = NoOp
  /\ hookCalls = 0
  /\ accepted = 0
  /\ declared = << >>
  /\ nDeclares = 0
  /\ nWrites = 0

Init ==
  /\ EmptyRegistry
  /\ cmpIn = << << >>, << >> >>
  /\ cmpOut = NoCmp

\* Equal length and equal character by character after lowercasing.
SameFolded(a, b) ==
  /\ Len(a) = Len(b)
  /\ \A k \in 1..Len(a) : ToLower(Ord(a[k])) = ToLower(Ord(b[k]))

InTokens(toks, v) == \E k \in 1..Len(toks) : SameFolded(toks[k], v)

\* The validation of Write as section 4.1 states it (steps 1 and 2).
Validates(o, v) ==
  /\ ~(o.type # "button" /\ v = << >>)
  /\ ~(o.type = "check" /\ v # T_true /\ v # T_false)
  /\ ~(o.type = "spin" /\ SpinCheck(Stof(v), o.min, o.max) # "pass")
  /\ ~(o.type = "combo" /\ (v = T_var \/ ~InTokens(Tokens(o.defaultValue, 1), v)))

DeclareAt(d, r, p) ==
  /\ om' = r.om
  /\ insert_order' = r.insert_order
  /\ declared' = SelectSeq(declared, LAMBDA x : ~SameFolded(x, d.name))
                   \o (IF \E k \in 1..Len(declared) : SameFolded(declared[k], d.name)
                       THEN SelectSeq(declared, LAMBDA x : SameFolded(x, d.name))
                       ELSE << d.name >>)
  /\ lastOp' = [NoOp EXCEPT !.op = "declare", !.name = d.name, !.pos = p,
                            !.ctrBefore = insert_order]

DeclareResult(d, r) == DeclareAt(d, r, MapFind(r.om, d.name))

\* o[d.name] << d.opt
Declare(d) ==
  /\ nDeclares + nWrites < MaxOps
  /\ DeclareResult(d, OperatorInsert(om, insert_order, d.name, d.opt))
  /\ nDeclares' = nDeclares + 1
  /\ UNCHANGED << hookCalls, accepted, nWrites, cmpVars >>

WriteResult(i, v, r) ==
  /\ om' = [om EXCEPT ![i].opt = r.opt]
  /\ insert_order' = r.insert_order
  /\ hookCalls' = hookCalls + Len(r.hooks)
  /\ accepted' = accepted
       + (IF om[i].opt.on_change # "nullptr" /\ Validates(om[i].opt, v) THEN 1 ELSE 0)
  /\ lastOp' = [op |-> "write", name |-> om[i].key, v |-> v,
                cur |-> om[i].opt.currentValue, pos |-> i, threw |-> r.threw,
                what |-> r.what,
                hooks |-> r.hooks, ctrBefore |-> insert_order]

\* om[i].opt = v  (the entry has been looked up by the caller)
Write(i, v) ==
  /\ nDeclares + nWrites < MaxOps
  /\ WriteResult(i, v, OperatorAssign(om[i].opt, v, insert_order))
  /\ nWrites' = nWrites + 1
  /\ UNCHANGED << declared, nDeclares, cmpVars >>

\* om.count(n) / om.find(n): no effect on the registry.
Lookup(n) ==
  /\ lastOp' = [NoOp EXCEPT !.op = "lookup", !.name = n, !.pos = MapFind(om, n),
                            !.ctrBefore = insert_order]
  /\ UNCHANGED << om, insert_order, hookCalls, accepted, declared, nDeclares, nWrites,
                  cmpVars >>

Next ==
  \/ \E d \in DeclInputs : Declare(d)
  \/ \E i \in 1..Len(om), v \in Texts : Write(i, v)
  \/ \E n \in LookupNames : Lookup(n)

Spec == Init /\ [][Next]_vars

\* ------------------------------------------------- the comparator on its own
\* The characters of the texts compared: a letter in both cases, another
\* letter, and a character whose code lies between the two cases.
Alphabet == { "a", "A", "B", "_" }

\* The texts of at most MaxLen characters.
Words == UNION { [1..n -> Alphabet] : n \in 0..MaxLen }

\* The answers for the texts a and b: of the comparator both ways, of
\* operator== on a combo whose current value is a, and of count(b) on a map
\* whose one key is a.
CompareResult(a, b) ==
  [done    |-> TRUE,
   less    |-> CaseInsensitiveLess(a, b),
   greater |-> CaseInsensitiveLess(b, a),
   equals  |-> OperatorEquals(OptionCombo(ComboList, a, "nullptr"), b),
   count   |-> MapCount(OperatorInsert(<< >>, 0, a, OptionButton("nullptr")).om, b)]

CompareInit ==
  /\ EmptyRegistry
  /\ cmpIn \in Words \X Words
  /\ cmpOut = NoCmp

Compare ==
  /\ ~cmpOut.done
  /\ cmpOut' = CompareResult(cmpIn[1], cmpIn[2])
  /\ UNCHANGED << om, insert_order, lastOp, hookCalls, accepted, declared,
                  nDeclares, nWrites, cmpIn >>

CompareNext == Compare

CompareSpec == CompareInit /\ [][CompareNext]_vars

TypeOK ==
  /\ insert_order >= 0
  /\ Len(om) <= MaxOps

\* ------------------------------------------------------------------ claims
\* The entry the last Write was applied to, as it is now.
Target == om[lastOp.pos].opt

IsWrite == lastOp.op = "write"

\* The last Write left the stored value as it was and called no hook.
Untouched == Target.currentValue = lastOp.cur /\ lastOp.hooks = << >>

\* x, a float, lies within [lo, hi].
Within(x, lo, hi) == x.kind = "num" /\ ~FloatLess(x, lo) /\ ~FloatGreater(x, hi)

\* x, a float, is a number (or an infinity) below lo or above hi.
Outside(x, lo, hi) ==
  x.kind \in {"num", "inf"} /\ (FloatLess(x, lo) \/ FloatGreater(x, hi))

\* C1: the current value of every spin setting, read as a number, lies
\* within [min, max] of the setting, whatever was written to it.
C1_SpinWithinBounds ==
  \A i \in 1..Len(om) :
     om[i].opt.type = "spin"
        => Within(OperatorDouble(om[i].opt), om[i].opt.min, om[i].opt.max)

\* C2: a Write to a spin whose parsed number is below min or above max keeps
\* the stored value and calls no hook; on Hash (16, 1, 33554432) writing "0"
\* keeps 16, and writing "64" stores "64" and calls the hook exactly once,
\* the hook seeing "64".
C2_OutOfRangeRejected ==
  IsWrite /\ Target.type = "spin" =>
     /\ Outside(Stof(lastOp.v), Target.min, Target.max) => Untouched
     /\ (lastOp.name = N_Hash /\ Target.max = MaxHashMB /\ lastOp.v = T_0)
           => Target.currentValue = lastOp.cur
     /\ (lastOp.name = N_Hash /\ Target.max = MaxHashMB /\ lastOp.v = T_64)
           => /\ Target.currentValue = T_64
              /\ Len(lastOp.hooks) = 1
              /\ lastOp.hooks[1].seen = T_64

\* Hash still holds its default 16 after "0" was written to it.
C2_Witness ==
  /\ IsWrite /\ lastOp.name = N_Hash /\ lastOp.v = T_0
  /\ Target.type = "spin" /\ Target.min = 1
  /\ Target.currentValue = to_string(16) /\ lastOp.hooks = << >>

\* C3: a Write of a value that does not validate for the kind of the setting
\* returns normally, keeps the stored value and calls no hook.
C3_MalformedIsSilentNoOp ==
  IsWrite /\ ~Validates([Target EXCEPT !.currentValue = lastOp.cur], lastOp.v)
     => ~lastOp.threw /\ Untouched

\* C4: on a combo, a Write of a token that matches no token of the choice
\* list (case-insensitively) keeps the stored value and calls no hook, and a
\* Write of "var" keeps the stored value.
C4_ComboRejectsUnlisted ==
  IsWrite /\ Target.type = "combo" =>
     /\ ~InTokens(Tokens(Target.defaultValue, 1), lastOp.v) => Untouched
     /\ lastOp.v = T_var => Target.currentValue = lastOp.cur

\* "Purple" was written to a combo that has a hook, and nothing changed.
C4_Witness ==
  /\ IsWrite /\ Target.type = "combo" /\ Target.on_change # "nullptr"
  /\ lastOp.v = T_Purple /\ Untouched

\* C5: the stored value of a combo matches a token of its choice list
\* case-insensitively, and a Write that validates stores the text exactly as
\* written: "black" is stored as "black", and "Purple" then leaves "black".
C5_ComboValueListed ==
  /\ \A i \in 1..Len(om) :
        om[i].opt.type = "combo"
           => InTokens(Tokens(om[i].opt.defaultValue, 1), om[i].opt.currentValue)
  /\ IsWrite /\ Target.type = "combo" =>
        /\ Validates([Target EXCEPT !.currentValue = lastOp.cur], lastOp.v)
              => Target.currentValue = lastOp.v
        /\ lastOp.v = T_black => Target.currentValue = T_black
        /\ (lastOp.v = T_Purple /\ lastOp.cur = T_black) => Target.currentValue = T_black

\* "black" was stored, then "Purple" was written and "black" stayed.
C5_Witness ==
  /\ IsWrite /\ Target.type = "combo" /\ Target.defaultValue = ComboList
  /\ lastOp.v = T_Purple /\ lastOp.cur = T_black /\ Target.currentValue = T_black

\* The names of the entries Enumerate yields, in the order it yields them.
EnumeratedNames == [k \in 1..Len(Enumerate(om)) |-> Enumerate(om)[k].key]

\* C6: Enumerate yields every entry of the registry exactly once, in the
\* order in which the entries were declared.
C6_EnumerateAllInDeclarationOrder ==
  /\ Len(EnumeratedNames) = Len(om)
  /\ EnumeratedNames = declared

\* C7: the entries Enumerate yields have strictly increasing insertionRank.
C7_EnumerateRanksIncrease ==
  \A k \in 1..(Len(Enumerate(om)) - 1) :
     Enumerate(om)[k].opt.idx < Enumerate(om)[k + 1].opt.idx

\* Two entries are enumerated against the name order of the map, after a
\* lookup.
C7_Witness ==
  /\ lastOp.op = "lookup"
  /\ Len(Enumerate(om)) = 2
  /\ CaseInsensitiveLess(Enumerate(om)[2].key, Enumerate(om)[1].key)

\* C8: no two entries have names that are equal after lowercasing; a lookup
\* of any letter case of a declared name finds the one entry of that name;
\* and the name of an entry is the spelling it was first declared with.
C8_OneEntryPerName ==
  /\ \A i, j \in 1..Len(om) : SameFolded(om[i].key, om[j].key) => i = j
  /\ \A n \in LookupNames :
        /\ MapFind(om, n) # 0 <=> \E k \in 1..Len(declared) : SameFolded(declared[k], n)
        /\ MapFind(om, n) # 0 => SameFolded(om[MapFind(om, n)].key, n)
  /\ lastOp.op = "lookup" => lastOp.pos = MapFind(om, lastOp.name)
  /\ \A i \in 1..Len(om) : \E k \in 1..Len(declared) : declared[k] = om[i].key
  /\ \A k \in 1..Len(EnumeratedNames) :
        \E j \in 1..Len(declared) : declared[j] = EnumeratedNames[k]

\* "Threads" was declared, then declared again in another letter case, and
\* "ThReAdS" then looked up: it finds the entry, still named "Threads".
C8_Witness ==
  /\ lastOp.op = "lookup" /\ lastOp.name = N_ThReAdS /\ lastOp.pos # 0
  /\ nDeclares = 2 /\ Len(om) = 1
  /\ om[lastOp.pos].key = N_Threads

\* C9: on a setting with a hook, a Write that validates calls the hook
\* exactly once, the hook observing the value as stored by this Write; a
\* Write that does not validate calls no hook; so the hook calls made so far
\* number the Writes that validated.
C9_HookOncePerAcceptedWrite ==
  /\ IsWrite /\ Target.on_change # "nullptr" =>
        IF Validates([Target EXCEPT !.currentValue = lastOp.cur], lastOp.v)
        THEN /\ Len(lastOp.hooks) = 1
             /\ lastOp.hooks[1].hook = Target.on_change
             /\ lastOp.hooks[1].seen = Target.currentValue
             /\ Target.type # "button" => lastOp.hooks[1].seen = lastOp.v
        ELSE lastOp.hooks = << >>
  /\ IsWrite /\ Target.on_change = "nullptr" => lastOp.hooks = << >>
  /\ hookCalls = accepted

\* Two Writes were accepted on hooked settings, the last one changing the
\* value the hook then observed.
C9_Witness ==
  /\ IsWrite /\ hookCalls = 2 /\ Len(lastOp.hooks) = 1
  /\ lastOp.hooks[1].seen = lastOp.v /\ lastOp.cur # lastOp.v

\* C10: a Write of any text to a button, the empty text included, calls the
\* hook when one is attached and never changes the stored value; a Write of
\* the empty text to any other kind keeps the value and calls no hook.
C10_ButtonAcceptsAnyText ==
  IsWrite =>
     /\ Target.type = "button" =>
           /\ Target.currentValue = lastOp.cur
           /\ Target.currentValue = << >>
           /\ ~lastOp.threw
           /\ Len(lastOp.hooks) = (IF Target.on_change # "nullptr" THEN 1 ELSE 0)
     /\ (Target.type # "button" /\ lastOp.v = << >>) => ~lastOp.threw /\ Untouched

\* The empty text was written to a button with a hook, and the hook ran.
C10_Witness ==
  /\ IsWrite /\ Target.type = "button" /\ lastOp.v = << >>
  /\ Len(lastOp.hooks) = 1

\* C11: the stored value of every check setting is "true" or "false"; a
\* Write to a check is accepted only when its text is exactly "true" or
\* "false" and then stores that text, any other text ("True" included) keeps
\* the stored value and calls no hook; Ponder starts "false", and "maybe"
\* written after "true" leaves "true".
C11_CheckHoldsTrueOrFalse ==
  /\ \A i \in 1..Len(om) :
        om[i].opt.type = "check" => om[i].opt.currentValue \in {T_true, T_false}
  /\ IsWrite /\ Target.type = "check" =>
        /\ ~lastOp.threw
        /\ lastOp.v \in {T_true, T_false} => Target.currentValue = lastOp.v
        /\ lastOp.v \notin {T_true, T_false} => Untouched
        /\ (lastOp.v = T_maybe /\ lastOp.cur = T_true) => Target.currentValue = T_true
  /\ (lastOp.op = "declare" /\ lastOp.name = N_Ponder)
        => om[lastOp.pos].opt.currentValue = T_false

\* "true" was stored in Ponder, then "maybe" was written and "true" stayed.
C11_Witness ==
  /\ IsWrite /\ lastOp.name = N_Ponder /\ Target.type = "check"
  /\ lastOp.v = T_maybe /\ lastOp.cur = T_true /\ Target.currentValue = T_true

\* C12: no two entries have the same insertionRank, and a Declare assigns
\* the value the counter had before it, which is greater than the rank of
\* every other entry and than every rank assigned before (each of those is
\* below the counter, which the Declare leaves one above the new rank).
C12_RanksUniqueAndIncreasing ==
  /\ \A i, j \in 1..Len(om) : om[i].opt.idx = om[j].opt.idx => i = j
  /\ \A i \in 1..Len(om) : 0 <= om[i].opt.idx /\ om[i].opt.idx < insert_order
  /\ lastOp.op = "declare" =>
        /\ om[lastOp.pos].opt.idx = lastOp.ctrBefore
        /\ insert_order = lastOp.ctrBefore + 1
        /\ \A j \in 1..Len(om) :
              j # lastOp.pos => om[j].opt.idx < om[lastOp.pos].opt.idx

\* A name was declared, declared again, and a second name declared after
\* it: two entries, the one just declared with rank 2 and the other with
\* rank 1, rank 0 being gone.
C12_Witness ==
  /\ lastOp.op = "declare" /\ nDeclares = 3 /\ Len(om) = 2
  /\ om[lastOp.pos].opt.idx = 2
  /\ \E j \in 1..Len(om) : om[j].opt.idx = 1

\* The entry the last Declare has assigned.
JustDeclared == om[lastOp.pos].opt

\* C13 as stated: a setting just declared, of whatever kind, has its current
\* value equal to its default value.
C13_CurrentEqualsDefault ==
  lastOp.op = "declare" => JustDeclared.currentValue = JustDeclared.defaultValue

\* C13, amended: a string, check, spin or button just declared has its
\* current value equal to its default value (Hash: the text to_string gives
\* for 16, Ponder: "false", a button: the empty text); a combo just declared
\* has the choice list as its default value and the initial token given
\* with it, which is a token of that list, as its current value.
C13_CurrentIsDefaultOrInitialToken ==
  lastOp.op = "declare" =>
     /\ JustDeclared.type # "combo" => JustDeclared.currentValue = JustDeclared.defaultValue
     /\ JustDeclared.type = "spin" /\ lastOp.name = N_Hash
           => JustDeclared.defaultValue = to_string(16)
     /\ JustDeclared.type = "check" => JustDeclared.defaultValue = T_false
     /\ JustDeclared.type = "button" => JustDeclared.defaultValue = << >>
     /\ JustDeclared.type = "combo" =>
           /\ JustDeclared.defaultValue = ComboList
           /\ JustDeclared.currentValue # JustDeclared.defaultValue
           /\ InTokens(Tokens(JustDeclared.defaultValue, 1), JustDeclared.currentValue)
           /\ lastOp.name = N_AnalysisContempt => JustDeclared.currentValue = T_Both
           /\ lastOp.name = N_analysiscontempt => JustDeclared.currentValue = T_Off

\* Analysis Contempt was just declared: its default value is the choice
\* list, its current value the token "Both".
C13_Witness ==
  /\ lastOp.op = "declare" /\ lastOp.name = N_AnalysisContempt
  /\ JustDeclared.type = "combo"
  /\ JustDeclared.defaultValue = ComboList /\ JustDeclared.currentValue = T_Both

\* C14: the stored value of a combo never equals "var" in any letter case,
\* and a Write of "var" in any letter case to a combo keeps the stored value
\* and calls no hook.
C14_ComboNeverHoldsVar ==
  /\ \A i \in 1..Len(om) :
        om[i].opt.type = "combo" => ~SameFolded(om[i].opt.currentValue, T_var)
  /\ (IsWrite /\ Target.type = "combo" /\ SameFolded(lastOp.v, T_var)) => Untouched

\* C15: a Write leaves the counter, which is the rank the next Declare
\* assigns, as it was; and when every Declare so far was of a name not
\* declared before, the ranks of the n entries are exactly 0 .. n-1.
C15_WriteKeepsNextRank ==
  /\ IsWrite => insert_order = lastOp.ctrBefore
  /\ nDeclares = Len(om) =>
        { om[i].opt.idx : i \in 1..Len(om) } = 0..(Len(om) - 1)

\* This step is a Write.
WriteStep == nWrites' # nWrites

\* C16: a Write leaves the registry with the same names in the same places;
\* the setting written keeps its kind, default value, min, max,
\* insertionRank and hook, only its current value may differ; every other
\* setting stays as it was.
C16_WriteChangesOnlyCurrentValue ==
  [][WriteStep =>
       /\ Len(om') = Len(om)
       /\ \A i \in 1..Len(om) :
             /\ om'[i].key = om[i].key
             /\ om'[i].opt = [om[i].opt EXCEPT !.currentValue = om'[i].opt.currentValue]
             /\ i # lastOp'.pos => om'[i] = om[i]]_vars

\* A Write has changed the value of one of two settings.
C16_Witness ==
  /\ IsWrite /\ Len(om) = 2 /\ ~lastOp.threw
  /\ Target.currentValue = lastOp.v /\ lastOp.cur # lastOp.v

\* The labels of the fields of a rendered line, in the order rendered.
Labels(line) == [k \in 1..Len(line) |-> line[k].label]

\* The text of the field of a rendered line that carries the given label.
Field(line, label) == line[CHOOSE k \in 1..Len(line) : line[k].label = label].text

\* The rendered line shows the entry e as declared: name, kind token, then
\* the default value for every kind but button (for a spin as an integer,
\* followed by min and max), in that order.
ShowsDeclaration(line, e) ==
  /\ Labels(line) = (CASE e.opt.type = "button" -> << "option name", "type" >>
                       [] e.opt.type = "spin" ->
                            << "option name", "type", "default", "min", "max" >>
                       [] OTHER -> << "option name", "type", "default" >>)
  /\ Field(line, "option name") = e.key
  /\ Field(line, "type") = TypeChars(e.opt.type)
  /\ e.opt.type \in {"string", "check", "combo"}
        => Field(line, "default") = e.opt.defaultValue
  /\ e.opt.type = "spin" =>
        /\ to_string(IntOfFloat(Stof(Field(line, "default")))) = e.opt.defaultValue
        /\ IntOfFloat(Stof(Field(line, "min"))) = e.opt.min
        /\ IntOfFloat(Stof(Field(line, "max"))) = e.opt.max

\* C17: the rendering of Enumerate shows, for each entry it yields, the
\* name, the kind token and the default value as declared (none for a
\* button; for a spin the default as an integer, then min and max), and a
\* Write leaves the whole rendering as it was: Hash declared with 16, 1,
\* 33554432 renders default 16 min 1 max 33554432 before and after "64" is
\* written to it.
C17_RenderingShowsDefaults ==
  [][/\ \A k \in 1..Len(Enumerate(om)) :
          ShowsDeclaration(Render(om)[k], Enumerate(om)[k])
     /\ WriteStep => Render(om') = Render(om)]_vars

\* "64" was written to Hash and stored, and Hash still renders its default
\* 16 with min 1 and max 33554432.
C17_Witness ==
  /\ IsWrite /\ lastOp.name = N_Hash /\ Target.currentValue = T_64
  /\ Target.max = MaxHashMB
  /\ \E k \in 1..Len(Render(om)) :
        /\ Field(Render(om)[k], "option name") = N_Hash
        /\ Field(Render(om)[k], "default") = << "1", "6" >>
        /\ Field(Render(om)[k], "min") = << "1" >>
        /\ Field(Render(om)[k], "max") = IntChars(MaxHashMB)
        /\ Len(Field(Render(om)[k], "max")) = 8

\* C18: a Write that repeats the Write before it (same setting, same text)
\* leaves every setting of the registry and the rank counter as the first
\* one left them.
C18_RepeatedWriteChangesNothing ==
  [][(IsWrite /\ WriteStep /\ lastOp'.pos = lastOp.pos /\ lastOp'.v = lastOp.v)
        => om' = om /\ insert_order' = insert_order]_vars

\* The character c after lowercasing, as its code.
Fold(c) == ToLower(Ord(c))

\* a precedes b in the lexicographic order of the lowercased characters: at
\* the first position where they differ after lowercasing, a has ended or
\* has the smaller character.
FoldedLexLess(a, b) ==
  \E k \in 1..Len(b) :
     /\ \A j \in 1..(k - 1) : j <= Len(a) /\ Fold(a[j]) = Fold(b[j])
     /\ k > Len(a) \/ Fold(a[k]) < Fold(b[k])

\* C19: the comparator is a strict ordering (no text is less than itself,
\* no two texts are each less than the other, and less is transitive); it
\* is the lexicographic order of the lowercased characters; and two texts
\* are equivalent under it (neither less than the other), as operator== on
\* a combo and key matching in the map answer, exactly when they have equal
\* length and are equal character by character after lowercasing.
C19_ComparatorIsFoldedLexOrder ==
  cmpOut.done =>
     /\ ~CaseInsensitiveLess(cmpIn[1], cmpIn[1])
     /\ ~(cmpOut.less /\ cmpOut.greater)
     /\ \A c \in Words :
           (cmpOut.less /\ CaseInsensitiveLess(cmpIn[2], c))
              => CaseInsensitiveLess(cmpIn[1], c)
     /\ cmpOut.less <=> FoldedLexLess(cmpIn[1], cmpIn[2])
     /\ cmpOut.greater <=> FoldedLexLess(cmpIn[2], cmpIn[1])
     /\ (~cmpOut.less /\ ~cmpOut.greater) <=> SameFolded(cmpIn[1], cmpIn[2])
     /\ cmpOut.equals <=> SameFolded(cmpIn[1], cmpIn[2])
     /\ cmpOut.count = 1 <=> SameFolded(cmpIn[1], cmpIn[2])

\* "aB" and "AB" were compared: neither is less, and operator== and the map
\* lookup take them for the same text.
C19_Witness ==
  /\ cmpOut.done
  /\ cmpIn = << << "a", "B" >>, << "A", "B" >> >>
  /\ ~cmpOut.less /\ ~cmpOut.greater /\ cmpOut.equals /\ cmpOut.count = 1

====
